---- MODULE Spec2Model ----
(***************************************************************************)
(* A model of the log evidence extraction and chunk retrieval pipeline of  *)
(* the AI log analyzer backend:                                            *)
(*   preprocess.py  extract_relevant_lines                                 *)
(*   preprocess.py  summarize_metadata                                     *)
(*   embeddings.py  chunk_text, index_chunks, retrieve_top_k               *)
(*   main.py        analyze                                                *)
(*                                                                         *)
(* Strings.  A log line is a sequence of one-character strings.  The text  *)
(* handed to extract_relevant_lines is kept as the list text.splitlines()  *)
(* returns, each line named by its key in LineText.  A string built by     *)
(* "\n".join(...) is kept as the sequence of its pieces (a line, NL or     *)
(* DASHES); StrLen gives its length in characters.                         *)
(***************************************************************************)
EXTENDS Integers, Sequences, FiniteSets, TLC

VARIABLES
    \* extract_relevant_lines (preprocess.py)
    lines,            \* text.splitlines(), as keys of LineText
    max_lines,        \* parameter
    context_lines,    \* parameter
    matched_indices,  \* set of 0-based line indices
    sorted_idx,       \* sorted(matched_indices)
    cursor,           \* position of the loop over sorted_idx (1-based)
    block_start,      \* first index of the block being built
    block_end,        \* last index of the block being built
    blocks,           \* list of rendered blocks
    combined,         \* the blocks joined by the separator
    ex_pc,            \* "start", "marked", "loop", "built", "returned"
    ex_return,        \* which return statement was taken
    ex_result,        \* the returned string
    \* chunk_text (embeddings.py)
    text,             \* parameter, a sequence of characters
    chunk_size,       \* parameter
    overlap,          \* parameter
    chunks,           \* list of chunks
    i,                \* offset of the next chunk
    ck_pc,            \* "start", "loop", "returned"
    \* retrieve_top_k (embeddings.py) and what it talks to
    has_search,       \* callable(getattr(qdrant, "search", None))
    backend_hits,     \* the hits the vector backend reports, in its order
    envelope,         \* the shape of the REST response the server sends
    embed_calls,      \* calls of embedder.encode
    search_calls,     \* calls of qdrant.search
    rest_calls,       \* calls of requests.post
    primary,          \* "none", "unavailable", "raised", "ok"
    rest,             \* "none", "responded", or the exception of the call
    data,             \* resp.json()
    rt_pc,            \* "start", "primary", "rest", "returned", "raised"
    rt_result,        \* the returned list of records
    rt_exc,           \* the exception that escapes
    \* analyze (main.py), index_chunks (embeddings.py) and the vector backend;
    \* the variables of a request are functions of the request
    qdrant,           \* collection name -> [exists, points] of the backend
    serialized,       \* the caller sends a request once the last is answered
    an_pc,            \* "absent", "pending", "rejected", "indexing",
                      \* "indexed", "retrieved", "responded"
    incident_id,      \* payload.get("incident_id") or str(uuid.uuid4())
    reduced,          \* extract_relevant_lines(raw_text)
    ix_pc,            \* "idle", "chunked", "embedded", "recreated",
                      \* "returned", "raised"
    ix_chunks,        \* chunks of index_chunks
    payloads,         \* the points handed to qdrant.upsert
    backend_calls,    \* calls index_chunks made, in order
    ix_result,        \* what index_chunks returned or raised
    index_calls,      \* invocations of index_chunks
    indexed_count,    \* of analyze
    index_error,      \* of analyze
    retrieve_calls,   \* invocations of retrieve_top_k
    retrieved,        \* of analyze
    retrieval_error,  \* of analyze
    llm_calls,        \* invocations of run_llm
    \* summarize_metadata (preprocess.py)
    sm_lines,         \* text.splitlines(), as keys of MetaLineText
    sm_pc,            \* "start", "returned"
    sm_result         \* the returned dict

exVars == <<lines, max_lines, context_lines, matched_indices, sorted_idx, cursor,
            block_start, block_end, blocks, combined, ex_pc, ex_return, ex_result>>

ckVars == <<text, chunk_size, overlap, chunks, i, ck_pc>>

rtVars == <<has_search, backend_hits, envelope, embed_calls, search_calls,
            rest_calls, primary, rest, data, rt_pc, rt_result, rt_exc>>

anVars == <<qdrant, serialized, an_pc, incident_id, reduced, ix_pc, ix_chunks,
            payloads, backend_calls, ix_result, index_calls, indexed_count,
            index_error, retrieve_calls, retrieved, retrieval_error, llm_calls>>

smVars == <<sm_lines, sm_pc, sm_result>>

vars == <<exVars, ckVars, rtVars, anVars, smVars>>

\* what each function leaves alone
otherThanExtract == <<ckVars, rtVars, anVars, smVars>>
otherThanChunk == <<exVars, rtVars, anVars, smVars>>
otherThanRetrieve == <<exVars, ckVars, anVars, smVars>>
otherThanAnalyze == <<exVars, ckVars, rtVars, smVars>>
otherThanSummarize == <<exVars, ckVars, rtVars, anVars>>

(***************************************************************************)
(* Bounds of the model.                                                    *)
(***************************************************************************)
\* longest text of the exhaustive family of short logs
MaxShortLines == 3
\* longest text of the two-line-kind family (plain line / keyword line)
MaxBinaryLines == 11
\* length of the long filler line
LongLineLen == 1100
\* longest text of the exhaustive family of chunk_text inputs
MaxTextLen == 5
\* largest chunk_size and overlap of that family
MaxChunkSize == 3
\* most hits the backend reports
MaxHits == 2
\* most analyze requests a caller sends one after the other
MaxRequests == 2
\* longest text of the exhaustive family of summarize_metadata inputs
MaxMetaLines == 2

(***************************************************************************)
(* Characters.                                                             *)
(***************************************************************************)
UPPER == <<"A","B","C","D","E","F","G","H","I","J","K","L","M","N","O","P","Q","R","S","T","U","V","W","X","Y","Z">>
LOWER == <<"a","b","c","d","e","f","g","h","i","j","k","l","m","n","o","p","q","r","s","t","u","v","w","x","y","z">>
DIGITS == <<"0","1","2","3","4","5","6","7","8","9">>

\* re.I: letters compare by their lower-case form
LowerChar(c) ==
    IF \E k \in 1..26 : UPPER[k] = c
    THEN LOWER[CHOOSE k \in 1..26 : UPPER[k] = c]
    ELSE c

LowerStr(s) == [k \in 1..Len(s) |-> LowerChar(s[k])]

\* \w
WordChars ==
    {UPPER[k] : k \in 1..26} \cup {LOWER[k] : k \in 1..26}
        \cup {DIGITS[k] : k \in 1..10} \cup {"_"}

IsWordChar(c) == c \in WordChars

\* the literal pat occurs in s at position p (1-based)
MatchesAt(s, p, pat) ==
    /\ p + Len(pat) - 1 <= Len(s)
    /\ \A k \in 1..Len(pat) : s[p + k - 1] = pat[k]

\* \b between s[p-1] and s[p], for p in 1..Len(s)+1
WordBoundary(s, p) ==
    (p > 1 /\ IsWordChar(s[p - 1])) # (p <= Len(s) /\ IsWordChar(s[p]))

(***************************************************************************)
(* preprocess.py: the pattern catalog.                                     *)
(***************************************************************************)
\* the alternatives of ERROR_KEYWORDS_RE, in the order of the source; the
\* pattern is a raw regular expression, so \( and \) stand for ( and )
ERROR_KEYWORDS == <<
    <<"E","R","R","O","R">>,
    <<"F","A","I","L">>,
    <<"F","A","I","L","E","D">>,
    <<"E","X","C","E","P","T","I","O","N">>,
    <<"E","X","C","E","P","T","I","O","N",":">>,
    <<"T","R","A","C","E","B","A","C","K">>,
    <<"T","R","A","C","E","B","A","C","K"," ","(","m","o","s","t"," ","r","e","c","e","n","t"," ","c","a","l","l"," ","l","a","s","t",")">>,
    <<"S","t","a","c","k","t","r","a","c","e">>,
    <<"p","a","n","i","c">>,
    <<"s","e","g","f","a","u","l","t">>,
    <<"e","x","i","t"," ","c","o","d","e">>,
    <<"f","a","t","a","l">> >>

\* \b(alt1|alt2|...)\b matched at position p of the lower-cased line s by
\* alternative kw
KeywordAt(s, p, kw) ==
    /\ WordBoundary(s, p)
    /\ MatchesAt(s, p, LowerStr(kw))
    /\ WordBoundary(s, p + Len(kw))

\* ERROR_KEYWORDS_RE.search(line) is not None
ERROR_KEYWORDS_RE(line) ==
    LET s == LowerStr(line)
    IN  \E p \in 1..Len(s) : \E k \in 1..Len(ERROR_KEYWORDS) :
            KeywordAt(s, p, ERROR_KEYWORDS[k])

\* the strings of STACK_STARTERS, character for character
STACK_STARTERS == <<
    <<"T","r","a","c","e","b","a","c","k"," ","\\","(","m","o","s","t"," ","r","e","c","e","n","t"," ","c","a","l","l"," ","l","a","s","t","\\",")",":">>,
    <<"E","x","c","e","p","t","i","o","n"," ","i","n"," ","t","h","r","e","a","d">>,
    <<"a","t"," ","[","\\","w",".","$","]","+","\\","(",".","*","\\",")">>,
    <<"F","i","l","e"," ","\"",".","*","\"",","," ","l","i","n","e"," ","\\","d","+">>,
    <<"p","a","n","i","c",":"," ">> >>

\* STACK_STARTERS_RE.search(line) is not None.  The pattern is compiled from
\* '|'.join(re.escape(s) for s in STACK_STARTERS): re.escape makes every
\* character of s stand for itself, so an alternative matches exactly the
\* text of s, backslashes and brackets included, up to letter case.
STACK_STARTERS_RE(line) ==
    LET s == LowerStr(line)
    IN  \E p \in 1..Len(s) : \E k \in 1..Len(STACK_STARTERS) :
            MatchesAt(s, p, LowerStr(STACK_STARTERS[k]))

(***************************************************************************)
(* The log lines the inputs are built from.                                *)
(***************************************************************************)
LineText == [
    info     |-> <<"I","N","F","O"," ","o","k">>,
    err      |-> <<"E","R","R","O","R",":"," ","x">>,
    tb       |-> <<"T","r","a","c","e","b","a","c","k"," ","(","m","o","s","t"," ","r","e","c","e","n","t"," ","c","a","l","l"," ","l","a","s","t",")",":">>,
    frame    |-> <<" "," ","a","t"," ","a",".","B","(","c",")">>,
    pyfile   |-> <<" "," ","F","i","l","e"," ","\"","x","\"",","," ","l","i","n","e"," ","1">>,
    jthread  |-> <<"E","x","c","e","p","t","i","o","n"," ","i","n"," ","t","h","r","e","a","d">>,
    gopanic  |-> <<"p","a","n","i","c",":"," ","x">>,
    subpanic |-> <<"_","p","a","n","i","c",":"," ","x">>,
    blank    |-> <<>>,
    long     |-> [k \in 1..LongLineLen |-> "x"] ]

LineIds == DOMAIN LineText

\* pieces of a joined string that are not lines
NL == "\n"
DASHES == "---"

PieceLen(p) ==
    IF p = NL THEN 1 ELSE IF p = DASHES THEN 3 ELSE Len(LineText[p])

RECURSIVE SumLen(_, _, _)
SumLen(s, lo, hi) ==
    IF lo > hi THEN 0
    ELSE IF lo = hi THEN PieceLen(s[lo])
    ELSE LET mid == (lo + hi) \div 2
         IN  SumLen(s, lo, mid) + SumLen(s, mid + 1, hi)

\* len(s) of a joined string
StrLen(s) == SumLen(s, 1, Len(s))

\* the search results per line, computed once
KeywordLine == [id \in LineIds |-> ERROR_KEYWORDS_RE(LineText[id])]
StarterLine == [id \in LineIds |-> STACK_STARTERS_RE(LineText[id])]

(***************************************************************************)
(* preprocess.py: extract_relevant_lines.                                  *)
(***************************************************************************)
\* defaults of the parameters max_lines and context_lines
DefaultMaxLines == 500
DefaultContextLines == 2
\* "limit growth": range(i, min(n, i + 200))
GrowthCap == 200
\* max_chars
max_chars == 200000

Max(a, b) == IF a >= b THEN a ELSE b
Min(a, b) == IF a <= b THEN a ELSE b

\* range(a, b)
Range(a, b) == {j \in a..(b - 1) : TRUE}

\* lines[a:b] for 0 <= a, b <= len(lines)
Slice(ls, a, b) == SubSeq(ls, a + 1, b)

\* "\n".join(ls)
JoinNL(ls) ==
    IF Len(ls) = 0 THEN <<>>
    ELSE [k \in 1..(2 * Len(ls) - 1) |->
            IF k % 2 = 1 THEN ls[(k + 1) \div 2] ELSE NL]

\* the separator "\n\n---\n\n"
BlockSeparator == <<NL, NL, DASHES, NL, NL>>

\* "\n\n---\n\n".join(bs)
RECURSIVE JoinBlocksFrom(_, _)
JoinBlocksFrom(bs, k) ==
    IF k > Len(bs) THEN <<>>
    ELSE IF k = Len(bs) THEN bs[k]
    ELSE bs[k] \o BlockSeparator \o JoinBlocksFrom(bs, k + 1)

JoinBlocks(bs) == JoinBlocksFrom(bs, 1)

\* pass 1: every keyword line marks its context window
KeywordPass(ls, ctx) ==
    LET n == Len(ls)
    IN  UNION { Range(Max(0, li - ctx), Min(n, li + ctx + 1)) :
                    li \in {i0 \in 0..(n - 1) : KeywordLine[ls[i0 + 1]]} }

\* pass 2: every stack starter line marks itself and the lines after it
StackPass(ls) ==
    LET n == Len(ls)
    IN  UNION { Range(li, Min(n, li + GrowthCap)) :
                    li \in {i0 \in 0..(n - 1) : StarterLine[ls[i0 + 1]]} }

\* sorted(matched_indices), the indices being line indices of ls
Sorted(S, n) == SelectSeq([k \in 1..n |-> k - 1], LAMBDA x : x \in S)

\* a variant of ExtendsBlock that also merges across a gap of one line
ExtendsBlockAcrossGap(idx, last) == idx <= last + 2

\* the test that extends the current block by idx
ExtendsBlock(idx, last) == idx <= last + 1

\* "\n".join(lines[block_start:block_end+1])
RenderBlock(ls, bs, be) == JoinNL(Slice(ls, bs, be + 1))

\* a variant of TailWindow that starts one line late
TailWindowLate(ls, ml) ==
    LET n == Len(ls)
        start == Max(0, n - ml + 1)
    IN  JoinNL(Slice(ls, Min(start, n), n))

\* start = max(0, n - max_lines); "\n".join(lines[start:])
TailWindow(ls, ml) ==
    LET n == Len(ls)
        start == Max(0, n - ml)
    IN  JoinNL(Slice(ls, start, n))

\* len(combined) > max_chars
TooLong(s) == StrLen(s) > max_chars

(***************************************************************************)
(* The inputs of extract_relevant_lines.                                   *)
(***************************************************************************)
Rep(id, k) == [j \in 1..k |-> id]

SeqsUpTo(S, m) == UNION {[1..k -> S] : k \in 0..m}

ShortIds == {"info", "err", "tb", "frame", "pyfile", "subpanic", "blank"}

ShortInputs ==
    [lines : SeqsUpTo(ShortIds, MaxShortLines),
     max_lines : {0, 1, 2, DefaultMaxLines},
     context_lines : {0, 1, DefaultContextLines}]

BinaryInputs ==
    [lines : SeqsUpTo({"info", "err"}, MaxBinaryLines),
     max_lines : {DefaultMaxLines},
     context_lines : {0, DefaultContextLines}]

BigTexts ==
    { Rep("info", a) \o core \o Rep(g, b) :
        a \in {0, 2},
        core \in {<<>>, <<"gopanic">>, <<"subpanic">>, <<"jthread">>, <<"err">>, <<"frame">>},
        g \in {"info", "long"},
        b \in {GrowthCap - 2, GrowthCap - 1, GrowthCap, DefaultMaxLines + 3} }

BigInputs ==
    [lines : BigTexts,
     max_lines : {1, DefaultMaxLines},
     context_lines : {DefaultContextLines}]

ExtractInputs == ShortInputs \cup BinaryInputs \cup BigInputs

ExtractEntry ==
    /\ \E inp \in ExtractInputs :
        /\ lines = inp.lines
        /\ max_lines = inp.max_lines
        /\ context_lines = inp.context_lines
    /\ matched_indices = {}
    /\ sorted_idx = <<>>
    /\ cursor = 0
    /\ block_start = 0
    /\ block_end = 0
    /\ blocks = <<>>
    /\ combined = <<>>
    /\ ex_pc = "start"
    /\ ex_return = "none"
    /\ ex_result = <<>>

\* if not text: return ""
ExtractEmpty ==
    /\ ex_pc = "start"
    /\ lines = <<>>
    /\ ex_pc' = "returned"
    /\ ex_return' = "empty"
    /\ ex_result' = <<>>
    /\ UNCHANGED <<lines, max_lines, context_lines, matched_indices, sorted_idx, cursor,
                   block_start, block_end, blocks, combined>>
    /\ UNCHANGED otherThanExtract

\* steps 1 and 2: the keyword pass and the stack-trace pass
ExtractMark ==
    /\ ex_pc = "start"
    /\ lines # <<>>
    /\ matched_indices' = KeywordPass(lines, context_lines) \cup StackPass(lines)
    /\ ex_pc' = "marked"
    /\ UNCHANGED <<lines, max_lines, context_lines, sorted_idx, cursor, block_start,
                   block_end, blocks, combined, ex_return, ex_result>>
    /\ UNCHANGED otherThanExtract

\* step 3: nothing matched, return the last max_lines lines
ExtractNoMatch ==
    /\ ex_pc = "marked"
    /\ matched_indices = {}
    /\ ex_pc' = "returned"
    /\ ex_return' = "nomatch"
    /\ ex_result' = TailWindow(lines, max_lines)
    /\ UNCHANGED <<lines, max_lines, context_lines, matched_indices, sorted_idx, cursor,
                   block_start, block_end, blocks, combined>>
    /\ UNCHANGED otherThanExtract

\* step 4: sort the indices and open the first block
ExtractSort ==
    /\ ex_pc = "marked"
    /\ matched_indices # {}
    /\ sorted_idx' = Sorted(matched_indices, Len(lines))
    /\ block_start' = sorted_idx'[1]
    /\ block_end' = sorted_idx'[1]
    /\ blocks' = <<>>
    /\ cursor' = 2
    /\ ex_pc' = "loop"
    /\ UNCHANGED <<lines, max_lines, context_lines, matched_indices, combined,
                   ex_return, ex_result>>
    /\ UNCHANGED otherThanExtract

\* one iteration of "for idx in sorted_idx[1:]": the index extends the block
ExtractExtend ==
    /\ ex_pc = "loop"
    /\ cursor <= Len(sorted_idx)
    /\ ExtendsBlock(sorted_idx[cursor], block_end)
    /\ block_end' = sorted_idx[cursor]
    /\ cursor' = cursor + 1
    /\ UNCHANGED <<lines, max_lines, context_lines, matched_indices, sorted_idx,
                   block_start, blocks, combined, ex_pc, ex_return, ex_result>>
    /\ UNCHANGED otherThanExtract

\* one iteration: the index does not extend the block, which is flushed
ExtractFlush ==
    /\ ex_pc = "loop"
    /\ cursor <= Len(sorted_idx)
    /\ ~ExtendsBlock(sorted_idx[cursor], block_end)
    /\ blocks' = Append(blocks, RenderBlock(lines, block_start, block_end))
    /\ block_start' = sorted_idx[cursor]
    /\ block_end' = sorted_idx[cursor]
    /\ cursor' = cursor + 1
    /\ UNCHANGED <<lines, max_lines, context_lines, matched_indices, sorted_idx,
                   combined, ex_pc, ex_return, ex_result>>
    /\ UNCHANGED otherThanExtract

\* after the loop: the last block is appended and the blocks are joined
ExtractJoin ==
    /\ ex_pc = "loop"
    /\ cursor > Len(sorted_idx)
    /\ blocks' = Append(blocks, RenderBlock(lines, block_start, block_end))
    /\ combined' = JoinBlocks(blocks')
    /\ ex_pc' = "built"
    /\ UNCHANGED <<lines, max_lines, context_lines, matched_indices, sorted_idx,
                   cursor, block_start, block_end, ex_return, ex_result>>
    /\ UNCHANGED otherThanExtract

\* step 5: the size guard fires
ExtractOversize ==
    /\ ex_pc = "built"
    /\ TooLong(combined)
    /\ ex_pc' = "returned"
    /\ ex_return' = "oversize"
    /\ ex_result' = TailWindow(lines, max_lines)
    /\ UNCHANGED <<lines, max_lines, context_lines, matched_indices, sorted_idx, cursor,
                   block_start, block_end, blocks, combined>>
    /\ UNCHANGED otherThanExtract

\* return combined
ExtractCombined ==
    /\ ex_pc = "built"
    /\ ~TooLong(combined)
    /\ ex_pc' = "returned"
    /\ ex_return' = "combined"
    /\ ex_result' = combined
    /\ UNCHANGED <<lines, max_lines, context_lines, matched_indices, sorted_idx, cursor,
                   block_start, block_end, blocks, combined>>
    /\ UNCHANGED otherThanExtract

NextExtract ==
    \/ ExtractEmpty
    \/ ExtractMark
    \/ ExtractNoMatch
    \/ ExtractSort
    \/ ExtractExtend
    \/ ExtractFlush
    \/ ExtractJoin
    \/ ExtractOversize
    \/ ExtractCombined

\* extract_relevant_lines is not running
ExtractIdle ==
    /\ lines = <<>>
    /\ max_lines = DefaultMaxLines
    /\ context_lines = DefaultContextLines
    /\ matched_indices = {}
    /\ sorted_idx = <<>>
    /\ cursor = 0
    /\ block_start = 0
    /\ block_end = 0
    /\ blocks = <<>>
    /\ combined = <<>>
    /\ ex_pc = "idle"
    /\ ex_return = "none"
    /\ ex_result = <<>>

(***************************************************************************)
(* embeddings.py: chunk_text.                                              *)
(***************************************************************************)
\* defaults of the parameters chunk_size and overlap
DefaultChunkSize == 2000
DefaultOverlap == 200

\* a slice bound x of a sequence of length n, as Python normalises it
SliceBound(x, n) == IF x < 0 THEN Max(0, x + n) ELSE Min(x, n)

\* s[a:b]
PySlice(s, a, b) ==
    SubSeq(s, SliceBound(a, Len(s)) + 1, SliceBound(b, Len(s)))

\* a variant of ChunkEnd that takes one character more
ChunkEndLong(offset, size) == offset + size + 1

\* end = i + chunk_size
ChunkEnd(offset, size) == offset + size

\* a variant of NextOffset that skips one character
NextOffsetSkip(end, ov) ==
    IF end - ov + 1 < 0 THEN 0 ELSE end - ov + 1

\* i = end - overlap; if i < 0: i = 0
NextOffset(end, ov) ==
    IF end - ov < 0 THEN 0 ELSE end - ov

\* iterations of the while loop the model follows; a loop that ends at all
\* ends within len(text) iterations when it advances
IterationCap == MaxTextLen + 3

ShortChunkInputs ==
    [text : SeqsUpTo({"a", "b"}, MaxTextLen),
     chunk_size : (-1)..MaxChunkSize,
     overlap : (-1)..MaxChunkSize]

\* a text of k letters, a, b, c, ... in turn
Letters(k) == [j \in 1..k |-> LOWER[((j - 1) % 26) + 1]]

DefaultChunkInputs ==
    [text : {Letters(k) : k \in {1, DefaultChunkSize - DefaultOverlap,
                                 DefaultChunkSize - DefaultOverlap + 1,
                                 DefaultChunkSize - 100, DefaultChunkSize,
                                 DefaultChunkSize + 1,
                                 2 * (DefaultChunkSize - DefaultOverlap) + 1}},
     chunk_size : {DefaultChunkSize},
     overlap : {DefaultOverlap}]

ChunkInputs == ShortChunkInputs \cup DefaultChunkInputs

ChunkEntry ==
    /\ \E inp \in ChunkInputs :
        /\ text = inp.text
        /\ chunk_size = inp.chunk_size
        /\ overlap = inp.overlap
    /\ chunks = <<>>
    /\ i = 0
    /\ ck_pc = "start"

\* chunk_text is not running
ChunkIdle ==
    /\ text = <<>>
    /\ chunk_size = DefaultChunkSize
    /\ overlap = DefaultOverlap
    /\ chunks = <<>>
    /\ i = 0
    /\ ck_pc = "idle"

\* if not text: return []
ChunkEmpty ==
    /\ ck_pc = "start"
    /\ text = <<>>
    /\ ck_pc' = "returned"
    /\ UNCHANGED <<text, chunk_size, overlap, chunks, i>>
    /\ UNCHANGED otherThanChunk

\* chunks = []; i = 0; n = len(text)
ChunkBegin ==
    /\ ck_pc = "start"
    /\ text # <<>>
    /\ chunks' = <<>>
    /\ i' = 0
    /\ ck_pc' = "loop"
    /\ UNCHANGED <<text, chunk_size, overlap>>
    /\ UNCHANGED otherThanChunk

\* one iteration of "while i < n"
ChunkLoop ==
    /\ ck_pc = "loop"
    /\ i < Len(text)
    /\ Len(chunks) < IterationCap
    /\ LET end == ChunkEnd(i, chunk_size)
       IN  /\ chunks' = Append(chunks, PySlice(text, i, end))
           /\ i' = NextOffset(end, overlap)
    /\ UNCHANGED <<text, chunk_size, overlap, ck_pc>>
    /\ UNCHANGED otherThanChunk

\* the loop ends: return chunks
ChunkReturn ==
    /\ ck_pc = "loop"
    /\ i >= Len(text)
    /\ ck_pc' = "returned"
    /\ UNCHANGED <<text, chunk_size, overlap, chunks, i>>
    /\ UNCHANGED otherThanChunk

NextChunk ==
    \/ ChunkEmpty
    \/ ChunkBegin
    \/ ChunkLoop
    \/ ChunkReturn

(***************************************************************************)
(* Python values, as the JSON decoder and the client hand them over: a     *)
(* value carries its type.                                                 *)
(***************************************************************************)
PyNone == [t |-> "none"]
PyBool(b) == [t |-> "bool", v |-> b]
PyNum(x) == [t |-> "num", v |-> x]
PyStr(x) == [t |-> "str", v |-> x]
PyList(x) == [t |-> "list", v |-> x]
PyDict(x) == [t |-> "dict", v |-> x]
EmptyDict == PyDict(<<>>)
EmptyList == PyList(<<>>)

\* bool(x)
Truthy(x) ==
    CASE x.t = "none" -> FALSE
      [] x.t = "bool" -> x.v
      [] x.t = "num" -> x.v # 0
      [] x.t = "str" -> x.v # ""
      [] x.t = "list" -> Len(x.v) > 0
      [] x.t = "dict" -> DOMAIN x.v # {}

\* a or b
Or(a, b) == IF Truthy(a) THEN a ELSE b

\* d.get(k, default) of a dict d
DictGet(d, k, default) == IF k \in DOMAIN d.v THEN d.v[k] ELSE default

\* the outcome of an expression: a value, or an exception
Value(x) == [ok |-> TRUE, val |-> x]
Raises(e) == [ok |-> FALSE, exc |-> e]

(***************************************************************************)
(* embeddings.py: retrieve_top_k, the REST response parsing.               *)
(***************************************************************************)
\* a variant of NormalizeHit that reads the score of a nested hit from the
\* 'point' sub-record
NormalizeHitScoreInPoint(h) ==
    IF h.t = "dict" /\ "point" \in DOMAIN h.v
    THEN LET pt == h.v["point"]
         IN  IF pt.t # "dict" THEN Raises("AttributeError")
             ELSE LET payload == Or(DictGet(pt, "payload", EmptyDict), EmptyDict)
                  IN  IF payload.t # "dict" THEN Raises("AttributeError")
                      ELSE Value([id |-> DictGet(pt, "id", PyNone),
                                  score |-> DictGet(pt, "score", PyNone),
                                  chunk |-> DictGet(payload, "chunk", PyNone)])
    ELSE IF h.t # "dict" THEN Raises("AttributeError")
    ELSE LET payload == Or(DictGet(h, "payload", EmptyDict), EmptyDict)
         IN  IF payload.t # "dict" THEN Raises("AttributeError")
             ELSE Value([id |-> DictGet(h, "id", PyNone),
                         score |-> DictGet(h, "score", PyNone),
                         chunk |-> DictGet(payload, "chunk", PyNone)])

\* the body of "for h in hits": the record appended to out, or the
\* AttributeError of calling .get on something that is no dict
NormalizeHit(h) ==
    IF h.t = "dict" /\ "point" \in DOMAIN h.v
    THEN LET pt == h.v["point"]
         IN  IF pt.t # "dict" THEN Raises("AttributeError")
             ELSE LET payload == Or(DictGet(pt, "payload", EmptyDict), EmptyDict)
                  IN  IF payload.t # "dict" THEN Raises("AttributeError")
                      ELSE Value([id |-> DictGet(pt, "id", PyNone),
                                  score |-> DictGet(h, "score", PyNone),
                                  chunk |-> DictGet(payload, "chunk", PyNone)])
    ELSE IF h.t # "dict" THEN Raises("AttributeError")
    ELSE LET payload == Or(DictGet(h, "payload", EmptyDict), EmptyDict)
         IN  IF payload.t # "dict" THEN Raises("AttributeError")
             ELSE Value([id |-> DictGet(h, "id", PyNone),
                         score |-> DictGet(h, "score", PyNone),
                         chunk |-> DictGet(payload, "chunk", PyNone)])

\* what "for h in hits" iterates over.  A list gives its elements.  A dict
\* gives its keys and a string its characters: strings, of which the loop
\* body needs only the first, as it fails on it.  Numbers and booleans are
\* not iterable.
Iterate(hits) ==
    CASE hits.t = "list" -> Value(hits.v)
      [] hits.t = "dict" ->
            Value(IF DOMAIN hits.v = {} THEN <<>>
                  ELSE <<PyStr(CHOOSE k \in DOMAIN hits.v : TRUE)>>)
      [] hits.t = "str" -> Value(IF hits.v = "" THEN <<>> ELSE <<PyStr(hits.v)>>)
      [] OTHER -> Raises("TypeError")

\* hits = data.get("result") or data.get("hits") or data.get("points") or []
SelectHits(body) ==
    Or(Or(Or(DictGet(body, "result", PyNone), DictGet(body, "hits", PyNone)),
          DictGet(body, "points", PyNone)),
       EmptyList)

\* from data = resp.json() to "return out": the list out, or the exception
\* raised on the way
ParseResponse(body) ==
    IF body.t # "dict" THEN Raises("AttributeError")
    ELSE LET it == Iterate(SelectHits(body))
         IN  IF ~it.ok THEN it
             ELSE LET rs == [k \in 1..Len(it.val) |-> NormalizeHit(it.val[k])]
                      bad == {k \in 1..Len(rs) : ~rs[k].ok}
                  IN  IF bad # {}
                      THEN Raises(rs[CHOOSE k \in bad : \A j \in bad : k <= j].exc)
                      ELSE Value([k \in 1..Len(rs) |-> rs[k].val])

\* the primary tier: the record built from a result r of qdrant.search
NormalizePrimary(r) ==
    [id |-> r.id,
     score |-> r.score,
     chunk |-> DictGet(Or(r.payload, EmptyDict), "chunk", PyNone)]

(***************************************************************************)
(* The vector backend, as retrieve_top_k sees it.  A hit is (id, score,    *)
(* chunk); a score is a number and stands for itself.                      *)
(***************************************************************************)
Hits ==
    [id : {PyNum(0), PyNum(1)},
     score : {PyNum(9), PyNum(5)},
     chunk : {PyStr("a"), PyNone}]

\* the payload stored with a hit
PayloadOf(h) == IF h.chunk.t = "none" THEN PyNone ELSE PyDict([chunk |-> h.chunk])

\* what qdrant.search returns: objects with attributes id, score, payload
SearchResults(hs) ==
    [k \in 1..Len(hs) |-> [id |-> hs[k].id, score |-> hs[k].score,
                           payload |-> PayloadOf(hs[k])]]

\* a hit in a REST response: a flat record, or nested under 'point'
EncodeHit(h, form) ==
    IF form = "point"
    THEN PyDict([point |-> PyDict([id |-> h.id, payload |-> PayloadOf(h)]),
                 score |-> h.score])
    ELSE PyDict([id |-> h.id, score |-> h.score, payload |-> PayloadOf(h)])

EncodeHits(hs, forms) == [k \in 1..Len(hs) |-> EncodeHit(hs[k], forms[k])]

\* the envelopes retrieve_top_k knows: the hit list under one of three keys
KnownShapes == {"result", "hits", "points"}
\* envelopes it does not know
UnknownShapes ==
    {"data_key", "bare_list", "null_body", "result_object", "id_list", "pair_list"}

\* the JSON body of a successful response
Body(env, hs) ==
    LET hl == PyList(EncodeHits(hs, env.forms))
    IN  CASE env.shape = "result" -> PyDict([result |-> hl, status |-> PyStr("ok")])
          [] env.shape = "hits" -> PyDict([hits |-> hl, status |-> PyStr("ok")])
          [] env.shape = "points" -> PyDict([points |-> hl, status |-> PyStr("ok")])
          [] env.shape = "data_key" -> PyDict([data |-> hl, status |-> PyStr("ok")])
          [] env.shape = "bare_list" -> hl
          [] env.shape = "null_body" -> PyNone
          [] env.shape = "result_object" ->
                PyDict([result |-> PyDict([points |-> hl]), status |-> PyStr("ok")])
          [] env.shape = "id_list" ->
                PyDict([result |-> PyList([k \in 1..Len(hs) |-> hs[k].id]),
                        status |-> PyStr("ok")])
          [] env.shape = "pair_list" ->
                PyDict([result |-> PyList([k \in 1..Len(hs) |->
                                            PyList(<<hs[k].id, hs[k].score>>)]),
                        status |-> PyStr("ok")])

\* the exceptions requests.post, raise_for_status and resp.json can raise
RestFailures == {"ConnectionError", "HTTPError", "JSONDecodeError"}

Envelopes(n) ==
    [shape : KnownShapes, forms : [1..n -> {"flat", "point"}]]
        \cup [shape : UnknownShapes, forms : {[k \in 1..n |-> "flat"]}]

RetrieveEntry ==
    /\ has_search \in BOOLEAN
    /\ backend_hits \in SeqsUpTo(Hits, MaxHits)
    /\ envelope \in Envelopes(Len(backend_hits))
    /\ embed_calls = 0
    /\ search_calls = 0
    /\ rest_calls = 0
    /\ primary = "none"
    /\ rest = "none"
    /\ data = PyNone
    /\ rt_pc = "start"
    /\ rt_result = <<>>
    /\ rt_exc = "none"

\* retrieve_top_k is not running
RetrieveIdle ==
    /\ has_search = FALSE
    /\ backend_hits = <<>>
    /\ envelope = [shape |-> "result", forms |-> <<>>]
    /\ embed_calls = 0
    /\ search_calls = 0
    /\ rest_calls = 0
    /\ primary = "none"
    /\ rest = "none"
    /\ data = PyNone
    /\ rt_pc = "idle"
    /\ rt_result = <<>>
    /\ rt_exc = "none"

\* RuntimeError(f"Qdrant retrieval failed (client+REST): {e}")
RetrievalFailed(e) == [type |-> "RuntimeError", cause |-> e]

\* qvec = embedder.encode([query])[0].tolist()
RetrieveEmbed ==
    /\ rt_pc = "start"
    /\ embed_calls' = embed_calls + 1
    /\ rt_pc' = "primary"
    /\ UNCHANGED <<has_search, backend_hits, envelope, search_calls, rest_calls,
                   primary, rest, data, rt_result, rt_exc>>
    /\ UNCHANGED otherThanRetrieve

\* embedder.encode raises: the call is outside both try blocks
RetrieveEmbedRaises ==
    /\ rt_pc = "start"
    /\ embed_calls' = embed_calls + 1
    /\ rt_pc' = "raised"
    /\ rt_exc' = [type |-> "EmbedderError", cause |-> "EmbedderError"]
    /\ UNCHANGED <<has_search, backend_hits, envelope, search_calls, rest_calls,
                   primary, rest, data, rt_result>>
    /\ UNCHANGED otherThanRetrieve

\* the client has no callable search: go on to the REST call
RetrieveNoSearch ==
    /\ rt_pc = "primary"
    /\ ~has_search
    /\ primary' = "unavailable"
    /\ rt_pc' = "rest"
    /\ UNCHANGED <<has_search, backend_hits, envelope, embed_calls, search_calls,
                   rest_calls, rest, data, rt_result, rt_exc>>
    /\ UNCHANGED otherThanRetrieve

\* qdrant.search returns: return the records built from its results
RetrieveSearchReturns ==
    /\ rt_pc = "primary"
    /\ has_search
    /\ search_calls' = search_calls + 1
    /\ primary' = "ok"
    /\ rt_result' = [k \in 1..Len(backend_hits) |->
                        NormalizePrimary(SearchResults(backend_hits)[k])]
    /\ rt_pc' = "returned"
    /\ UNCHANGED <<has_search, backend_hits, envelope, embed_calls, rest_calls,
                   rest, data, rt_exc>>
    /\ UNCHANGED otherThanRetrieve

\* a variant of RetrieveSearchRaises that lets the exception escape
RetrieveSearchRaisesEscapes ==
    /\ rt_pc = "primary"
    /\ has_search
    /\ search_calls' = search_calls + 1
    /\ primary' = "raised"
    /\ rt_pc' = "raised"
    /\ rt_exc' = [type |-> "ClientError", cause |-> "ClientError"]
    /\ UNCHANGED <<has_search, backend_hits, envelope, embed_calls, rest_calls,
                   rest, data, rt_result>>
    /\ UNCHANGED otherThanRetrieve

\* qdrant.search raises: except Exception: pass, go on to the REST call
RetrieveSearchRaises ==
    /\ rt_pc = "primary"
    /\ has_search
    /\ search_calls' = search_calls + 1
    /\ primary' = "raised"
    /\ rt_pc' = "rest"
    /\ UNCHANGED <<has_search, backend_hits, envelope, embed_calls, rest_calls,
                   rest, data, rt_result, rt_exc>>
    /\ UNCHANGED otherThanRetrieve

\* requests.post, resp.raise_for_status or resp.json raises
RetrieveRestFails ==
    /\ rt_pc = "rest"
    /\ rest_calls' = rest_calls + 1
    /\ \E e \in RestFailures :
        /\ rest' = e
        /\ rt_exc' = RetrievalFailed(e)
    /\ rt_pc' = "raised"
    /\ UNCHANGED <<has_search, backend_hits, envelope, embed_calls, search_calls,
                   primary, data, rt_result>>
    /\ UNCHANGED otherThanRetrieve

\* the server answers and the body is parsed into the list out
RetrieveRestReturns ==
    /\ rt_pc = "rest"
    /\ ParseResponse(Body(envelope, backend_hits)).ok
    /\ rest_calls' = rest_calls + 1
    /\ rest' = "responded"
    /\ data' = Body(envelope, backend_hits)
    /\ rt_result' = ParseResponse(data').val
    /\ rt_pc' = "returned"
    /\ UNCHANGED <<has_search, backend_hits, envelope, embed_calls, search_calls,
                   primary, rt_exc>>
    /\ UNCHANGED otherThanRetrieve

\* the server answers and parsing the body raises
RetrieveRestParseRaises ==
    /\ rt_pc = "rest"
    /\ ~ParseResponse(Body(envelope, backend_hits)).ok
    /\ rest_calls' = rest_calls + 1
    /\ rest' = "responded"
    /\ data' = Body(envelope, backend_hits)
    /\ rt_exc' = RetrievalFailed(ParseResponse(data').exc)
    /\ rt_pc' = "raised"
    /\ UNCHANGED <<has_search, backend_hits, envelope, embed_calls, search_calls,
                   primary, rt_result>>
    /\ UNCHANGED otherThanRetrieve

NextRetrieve ==
    \/ RetrieveEmbed
    \/ RetrieveEmbedRaises
    \/ RetrieveNoSearch
    \/ RetrieveSearchReturns
    \/ RetrieveSearchRaises
    \/ RetrieveRestFails
    \/ RetrieveRestReturns
    \/ RetrieveRestParseRaises

(***************************************************************************)
(* preprocess.py: summarize_metadata.                                      *)
(***************************************************************************)
\* str.upper() on the letters of the model
UpperCharKeep(c) == c

UpperChar(c) ==
    IF \E k \in 1..26 : LOWER[k] = c
    THEN UPPER[CHOOSE k \in 1..26 : LOWER[k] = c]
    ELSE c

UpperStr(s) == [k \in 1..Len(s) |-> UpperChar(s[k])]

\* m.group(0) of m = ERROR_KEYWORDS_RE.search(line), for a line that has a
\* match: the text at the leftmost position where an alternative matches,
\* of the first alternative that matches there
MatchGroup(line) ==
    LET s == LowerStr(line)
        at(p) == {k \in 1..Len(ERROR_KEYWORDS) : KeywordAt(s, p, ERROR_KEYWORDS[k])}
        p == CHOOSE q \in 1..Len(s) :
                 at(q) # {} /\ \A q2 \in 1..(q - 1) : at(q2) = {}
        k == CHOOSE a \in at(p) : \A b \in at(p) : a <= b
    IN  SubSeq(line, p, p + Len(ERROR_KEYWORDS[k]) - 1)

\* "traceback" in line.lower()
HasTracebackWord(line) ==
    LET s == LowerStr(line)
    IN  \E p \in 1..Len(s) :
            MatchesAt(s, p, <<"t","r","a","c","e","b","a","c","k">>)

\* ord(c) of the characters a matched keyword can hold
Ord(c) ==
    IF \E k \in 1..26 : UPPER[k] = c
    THEN 64 + (CHOOSE k \in 1..26 : UPPER[k] = c)
    ELSE IF \E k \in 1..26 : LOWER[k] = c
    THEN 96 + (CHOOSE k \in 1..26 : LOWER[k] = c)
    ELSE CASE c = " " -> 32 [] c = "(" -> 40 [] c = ")" -> 41 [] c = ":" -> 58

\* a < b of two strings
StrLess(a, b) ==
    \E j \in 1..Len(b) :
        /\ \A h \in 1..(j - 1) : h <= Len(a) /\ a[h] = b[h]
        /\ j > Len(a) \/ Ord(a[j]) < Ord(b[j])

\* sorted(list(S)) of a set of strings
SortedStrs(S) ==
    [k \in 1..Cardinality(S) |->
        CHOOSE x \in S : Cardinality({y \in S : StrLess(y, x)}) = k - 1]

\* the cap of detected_keywords
MaxKeywords == 10

\* the log lines the inputs of summarize_metadata are built from
MetaLineText == [
    info       |-> <<"I","N","F","O"," ","o","k">>,
    error      |-> <<"E","R","R","O","R",":"," ","x">>,
    error_lc   |-> <<"a","n"," ","e","r","r","o","r">>,
    fail       |-> <<"F","A","I","L">>,
    failed     |-> <<"B","u","i","l","d"," ","F","A","I","L","E","D">>,
    exception  |-> <<"E","x","c","e","p","t","i","o","n",":"," ","b","o","o","m">>,
    traceback  |-> <<"T","r","a","c","e","b","a","c","k"," ","(","m","o","s","t"," ","r","e","c","e","n","t"," ","c","a","l","l"," ","l","a","s","t",")",":">>,
    stacktrace |-> <<"s","t","a","c","k","t","r","a","c","e"," ","f","o","l","l","o","w","s">>,
    panic      |-> <<"p","a","n","i","c",":"," ","x">>,
    segfault   |-> <<"s","e","g","f","a","u","l","t"," ","a","t"," ","0">>,
    exit       |-> <<"e","x","i","t"," ","c","o","d","e"," ","1">>,
    fatal      |-> <<"f","a","t","a","l",":"," ","x">>,
    two        |-> <<"f","a","t","a","l"," ","E","R","R","O","R">>,
    inword     |-> <<"e","r","r","o","r","s">>,
    frame      |-> <<" "," ","a","t"," ","a",".","B","(","c",")">>,
    blank      |-> <<>> ]

MetaLineIds == DOMAIN MetaLineText

\* the searches per line, computed once
MetaKeywordLine == [id \in MetaLineIds |-> ERROR_KEYWORDS_RE(MetaLineText[id])]
MetaKeyword ==
    [id \in MetaLineIds |->
        IF MetaKeywordLine[id] THEN UpperStr(MatchGroup(MetaLineText[id]))
        ELSE <<>>]
MetaTraceLine ==
    [id \in MetaLineIds |->
        HasTracebackWord(MetaLineText[id]) \/ STACK_STARTERS_RE(MetaLineText[id])]

\* the state of the loop "for line in lines" when it ends: error_count
\* has counted the lines with a keyword, detected holds the upper-cased
\* match of each, contains_traceback is set if a line set it
SummarizeLoop(ls) ==
    LET hits == {k \in 1..Len(ls) : MetaKeywordLine[ls[k]]}
    IN  [error_count |-> Cardinality(hits),
         detected |-> {MetaKeyword[ls[k]] : k \in hits},
         contains_traceback |-> \E k \in 1..Len(ls) : MetaTraceLine[ls[k]]]

\* summarize_metadata(text), for text.splitlines() = ls
summarize_metadata(ls) ==
    IF ls = <<>>
    THEN [total_lines |-> 0, error_line_count |-> 0,
          contains_traceback |-> FALSE, detected_keywords |-> <<>>]
    ELSE LET end == SummarizeLoop(ls)
         IN  [total_lines |-> Len(ls),
              error_line_count |-> end.error_count,
              contains_traceback |-> end.contains_traceback,
              detected_keywords |->
                  PySlice(SortedStrs(end.detected), 0, MaxKeywords)]

\* a text with a line for every keyword; and the same lines backwards
EveryKeyword ==
    <<"info", "error", "error_lc", "fail", "failed", "exception", "traceback",
      "stacktrace", "panic", "segfault", "exit", "fatal", "two", "inword",
      "frame", "blank">>

Reverse(ls) == [k \in 1..Len(ls) |-> ls[Len(ls) + 1 - k]]

SummarizeInputs ==
    SeqsUpTo(MetaLineIds, MaxMetaLines)
        \cup {EveryKeyword, Reverse(EveryKeyword), EveryKeyword \o EveryKeyword}

SummarizeEntry ==
    /\ sm_lines \in SummarizeInputs
    /\ sm_pc = "start"
    /\ sm_result = summarize_metadata(<<>>)

\* summarize_metadata is not running
SummarizeIdle ==
    /\ sm_lines = <<>>
    /\ sm_pc = "idle"
    /\ sm_result = summarize_metadata(<<>>)

\* if not text: return {"total_lines": 0, ...}
SummarizeEmpty ==
    /\ sm_pc = "start"
    /\ sm_lines = <<>>
    /\ sm_result' = summarize_metadata(sm_lines)
    /\ sm_pc' = "returned"
    /\ UNCHANGED sm_lines
    /\ UNCHANGED otherThanSummarize

\* the loop over the lines and the return of the dict
SummarizeReturn ==
    /\ sm_pc = "start"
    /\ sm_lines # <<>>
    /\ sm_result' = summarize_metadata(sm_lines)
    /\ sm_pc' = "returned"
    /\ UNCHANGED sm_lines
    /\ UNCHANGED otherThanSummarize

NextSummarize ==
    \/ SummarizeEmpty
    \/ SummarizeReturn

(***************************************************************************)
(* embeddings.py: index_chunks, and the vector backend it writes to.       *)
(*                                                                         *)
(* A collection of the backend is the set of its points; a point is its id *)
(* and its payload.  The vector of a point and the dimension of the        *)
(* collection are what the embedder makes of the chunk and are not kept.   *)
(***************************************************************************)
Requests == 1..MaxRequests

\* the requests that may be in flight together
Concurrent == {r \in Requests : r <= 2}

DEFAULT_COLLECTION_PREFIX == "logs"

\* incident ids: one a caller supplies, and the fresh one uuid.uuid4() makes
\* for request r
SuppliedId == [by |-> "caller", n |-> 0]
Uuid4(r) == [by |-> "uuid4", n |-> r]
IncidentIds == {SuppliedId} \cup {Uuid4(r) : r \in Requests}

\* a variant of CollectionName that leaves the incident id out
CollectionNameShared(id) == <<DEFAULT_COLLECTION_PREFIX, SuppliedId>>

\* f"{DEFAULT_COLLECTION_PREFIX}_{incident_id}"
CollectionName(id) == <<DEFAULT_COLLECTION_PREFIX, id>>
Collections == {CollectionName(id) : id \in IncidentIds}

\* a collection that was never created, and one just created
Absent == [exists |-> FALSE, points |-> {}]
Created == [exists |-> TRUE, points |-> {}]

\* a variant of Recreate that creates the collection only if it is missing
RecreateKeeps(coll) == [coll EXCEPT !.exists = TRUE]

\* qdrant.recreate_collection: the collection is deleted and created
Recreate(coll) == Created

\* chunk_text(text, chunk_size, overlap): the chunks from offset off on
RECURSIVE ChunkTextFrom(_, _, _, _, _)
ChunkTextFrom(t, size, ov, off, acc) ==
    IF off < Len(t)
    THEN LET end == ChunkEnd(off, size)
         IN  ChunkTextFrom(t, size, ov, NextOffset(end, ov),
                           Append(acc, PySlice(t, off, end)))
    ELSE acc

\* chunk_text(text), with the default chunk_size and overlap
chunk_text(t) ==
    IF t = <<>> THEN <<>>
    ELSE ChunkTextFrom(t, DefaultChunkSize, DefaultOverlap, 0, <<>>)

\* a variant of PointStruct that numbers the points from 1
PointStructFromOne(idx, chunk) == [id |-> idx + 1, payload |-> [chunk |-> chunk]]

\* PointStruct(id=idx, vector=..., payload={"chunk": chunk})
PointStruct(idx, chunk) == [id |-> idx, payload |-> [chunk |-> chunk]]

\* for idx, (chunk, vec) in enumerate(zip(chunks, vectors)): payloads.append(...)
BuildPayloads(cs) == [k \in 1..Len(cs) |-> PointStruct(k - 1, cs[k])]

\* qdrant.upsert: a point replaces the point of the same id
Upsert(coll, pts) ==
    LET new == {pts[k] : k \in 1..Len(pts)}
        ids == {p.id : p \in new}
    IN  [coll EXCEPT !.points = {p \in coll.points : p.id \notin ids} \cup new]

\* the reduced text of the log request r sends: empty, one chunk long, or
\* two; the texts of two requests have no character in common
ReducedTexts(r) ==
    {[k \in 1..n |-> LOWER[r]] : n \in {0, 1, DefaultChunkSize + 1}}

\* no request was sent
AnalyzeIdle ==
    /\ qdrant = [c \in Collections |-> Absent]
    /\ serialized = FALSE
    /\ an_pc = [r \in Requests |-> "absent"]
    /\ incident_id = [r \in Requests |-> SuppliedId]
    /\ reduced = [r \in Requests |-> <<>>]
    /\ ix_pc = [r \in Requests |-> "idle"]
    /\ ix_chunks = [r \in Requests |-> <<>>]
    /\ payloads = [r \in Requests |-> <<>>]
    /\ backend_calls = [r \in Requests |-> <<>>]
    /\ ix_result = [r \in Requests |-> Value(PyNone)]
    /\ index_calls = [r \in Requests |-> 0]
    /\ indexed_count = [r \in Requests |-> 0]
    /\ index_error = [r \in Requests |-> "none"]
    /\ retrieve_calls = [r \in Requests |-> 0]
    /\ retrieved = [r \in Requests |-> <<>>]
    /\ retrieval_error = [r \in Requests |-> "none"]
    /\ llm_calls = [r \in Requests |-> 0]

\* requests are sent together (two of them), or one after the other
AnalyzeEntry ==
    /\ serialized \in BOOLEAN
    /\ an_pc = [r \in Requests |->
                  IF serialized \/ r \in Concurrent THEN "pending" ELSE "absent"]
    /\ qdrant = [c \in Collections |-> Absent]
    /\ incident_id = [r \in Requests |-> SuppliedId]
    /\ reduced = [r \in Requests |-> <<>>]
    /\ ix_pc = [r \in Requests |-> "idle"]
    /\ ix_chunks = [r \in Requests |-> <<>>]
    /\ payloads = [r \in Requests |-> <<>>]
    /\ backend_calls = [r \in Requests |-> <<>>]
    /\ ix_result = [r \in Requests |-> Value(PyNone)]
    /\ index_calls = [r \in Requests |-> 0]
    /\ indexed_count = [r \in Requests |-> 0]
    /\ index_error = [r \in Requests |-> "none"]
    /\ retrieve_calls = [r \in Requests |-> 0]
    /\ retrieved = [r \in Requests |-> <<>>]
    /\ retrieval_error = [r \in Requests |-> "none"]
    /\ llm_calls = [r \in Requests |-> 0]

\* the request was answered
Answered(r) == an_pc[r] \in {"rejected", "responded"}

\* the server takes up request r: any time, or under a caller that sends
\* its requests one after the other, when the earlier ones were answered
TakenUp(r) ==
    /\ an_pc[r] = "pending"
    /\ serialized => \A q \in Requests : q < r => Answered(q)

\* the collection of request r
collection_name(r) == CollectionName(incident_id[r])

\* raise HTTPException: invalid json, neither log_text nor log_key, or the
\* stored log cannot be read
AnalyzeReject ==
    /\ \E r \in Requests :
        /\ TakenUp(r)
        /\ an_pc' = [an_pc EXCEPT ![r] = "rejected"]
    /\ UNCHANGED <<qdrant, serialized, incident_id, reduced, ix_pc, ix_chunks,
                   payloads, backend_calls, ix_result, index_calls,
                   indexed_count, index_error, retrieve_calls, retrieved,
                   retrieval_error, llm_calls>>
    /\ UNCHANGED otherThanAnalyze

\* analyze up to the call index_chunks(reduced, collection=collection_name),
\* and index_chunks up to "chunks = chunk_text(text)"
AnalyzeIndexCall ==
    /\ \E r \in Requests :
        /\ TakenUp(r)
        /\ \E id \in {SuppliedId, Uuid4(r)} : \E t \in ReducedTexts(r) :
            /\ incident_id' = [incident_id EXCEPT ![r] = id]
            /\ reduced' = [reduced EXCEPT ![r] = t]
            /\ ix_chunks' = [ix_chunks EXCEPT ![r] = chunk_text(t)]
        /\ index_calls' = [index_calls EXCEPT ![r] = @ + 1]
        /\ ix_pc' = [ix_pc EXCEPT ![r] = "chunked"]
        /\ an_pc' = [an_pc EXCEPT ![r] = "indexing"]
    /\ UNCHANGED <<qdrant, serialized, payloads, backend_calls, ix_result,
                   indexed_count, index_error, retrieve_calls, retrieved,
                   retrieval_error, llm_calls>>
    /\ UNCHANGED otherThanAnalyze

\* if not chunks: return {"count": 0, "collection": collection}
IndexNoChunks ==
    /\ \E r \in Requests :
        /\ ix_pc[r] = "chunked"
        /\ ix_chunks[r] = <<>>
        /\ ix_result' = [ix_result EXCEPT ![r] =
               Value([count |-> 0, collection |-> collection_name(r)])]
        /\ ix_pc' = [ix_pc EXCEPT ![r] = "returned"]
    /\ UNCHANGED <<qdrant, serialized, an_pc, incident_id, reduced, ix_chunks,
                   payloads, backend_calls, index_calls, indexed_count,
                   index_error, retrieve_calls, retrieved, retrieval_error,
                   llm_calls>>
    /\ UNCHANGED otherThanAnalyze

\* vectors = embedder.encode(chunks, show_progress_bar=False)
IndexEncode ==
    /\ \E r \in Requests :
        /\ ix_pc[r] = "chunked"
        /\ ix_chunks[r] # <<>>
        /\ backend_calls' = [backend_calls EXCEPT ![r] = Append(@, "encode")]
        /\ ix_pc' = [ix_pc EXCEPT ![r] = "embedded"]
    /\ UNCHANGED <<qdrant, serialized, an_pc, incident_id, reduced, ix_chunks,
                   payloads, ix_result, index_calls, indexed_count,
                   index_error, retrieve_calls, retrieved, retrieval_error,
                   llm_calls>>
    /\ UNCHANGED otherThanAnalyze

\* embedder.encode raises
IndexEncodeRaises ==
    /\ \E r \in Requests :
        /\ ix_pc[r] = "chunked"
        /\ ix_chunks[r] # <<>>
        /\ backend_calls' = [backend_calls EXCEPT ![r] = Append(@, "encode")]
        /\ ix_result' = [ix_result EXCEPT ![r] = Raises("encode failed")]
        /\ ix_pc' = [ix_pc EXCEPT ![r] = "raised"]
    /\ UNCHANGED <<qdrant, serialized, an_pc, incident_id, reduced, ix_chunks,
                   payloads, index_calls, indexed_count, index_error,
                   retrieve_calls, retrieved, retrieval_error, llm_calls>>
    /\ UNCHANGED otherThanAnalyze

\* qdrant.recreate_collection(collection_name=collection, ...): whatever the
\* collection held is gone
IndexRecreate ==
    /\ \E r \in Requests :
        /\ ix_pc[r] = "embedded"
        /\ qdrant' = [qdrant EXCEPT ![collection_name(r)] = Recreate(@)]
        /\ backend_calls' = [backend_calls EXCEPT ![r] =
                                 Append(@, "recreate_collection")]
        /\ ix_pc' = [ix_pc EXCEPT ![r] = "recreated"]
    /\ UNCHANGED <<serialized, an_pc, incident_id, reduced, ix_chunks,
                   payloads, ix_result, index_calls, indexed_count,
                   index_error, retrieve_calls, retrieved, retrieval_error,
                   llm_calls>>
    /\ UNCHANGED otherThanAnalyze

\* qdrant.recreate_collection raises; it deletes and then creates, so the
\* collection is as it was or is gone
IndexRecreateRaises ==
    /\ \E r \in Requests :
        /\ ix_pc[r] = "embedded"
        /\ \E after \in {qdrant[collection_name(r)], Absent} :
            qdrant' = [qdrant EXCEPT ![collection_name(r)] = after]
        /\ backend_calls' = [backend_calls EXCEPT ![r] =
                                 Append(@, "recreate_collection")]
        /\ ix_result' = [ix_result EXCEPT ![r] = Raises("recreate failed")]
        /\ ix_pc' = [ix_pc EXCEPT ![r] = "raised"]
    /\ UNCHANGED <<serialized, an_pc, incident_id, reduced, ix_chunks,
                   payloads, index_calls, indexed_count, index_error,
                   retrieve_calls, retrieved, retrieval_error, llm_calls>>
    /\ UNCHANGED otherThanAnalyze

\* the loop that builds payloads; qdrant.upsert(collection_name=collection,
\* points=payloads); return {"count": len(chunks), "collection": collection}
IndexUpsert ==
    /\ \E r \in Requests :
        /\ ix_pc[r] = "recreated"
        /\ qdrant[collection_name(r)].exists
        /\ LET pts == BuildPayloads(ix_chunks[r])
           IN  /\ payloads' = [payloads EXCEPT ![r] = pts]
               /\ qdrant' = [qdrant EXCEPT ![collection_name(r)] =
                                 Upsert(@, pts)]
        /\ backend_calls' = [backend_calls EXCEPT ![r] = Append(@, "upsert")]
        /\ ix_result' = [ix_result EXCEPT ![r] =
               Value([count |-> Len(ix_chunks[r]),
                      collection |-> collection_name(r)])]
        /\ ix_pc' = [ix_pc EXCEPT ![r] = "returned"]
    /\ UNCHANGED <<serialized, an_pc, incident_id, reduced, ix_chunks,
                   index_calls, indexed_count, index_error, retrieve_calls,
                   retrieved, retrieval_error, llm_calls>>
    /\ UNCHANGED otherThanAnalyze

\* qdrant.upsert raises: the collection is gone, or the call fails on its
\* way there or back, so the points are stored or are not
IndexUpsertRaises ==
    /\ \E r \in Requests :
        /\ ix_pc[r] = "recreated"
        /\ LET pts == BuildPayloads(ix_chunks[r])
               coll == qdrant[collection_name(r)]
           IN  /\ payloads' = [payloads EXCEPT ![r] = pts]
               /\ \E after \in {coll} \cup
                               (IF coll.exists THEN {Upsert(coll, pts)} ELSE {}) :
                      qdrant' = [qdrant EXCEPT ![collection_name(r)] = after]
        /\ backend_calls' = [backend_calls EXCEPT ![r] = Append(@, "upsert")]
        /\ ix_result' = [ix_result EXCEPT ![r] = Raises("upsert failed")]
        /\ ix_pc' = [ix_pc EXCEPT ![r] = "raised"]
    /\ UNCHANGED <<serialized, an_pc, incident_id, reduced, ix_chunks,
                   index_calls, indexed_count, index_error, retrieve_calls,
                   retrieved, retrieval_error, llm_calls>>
    /\ UNCHANGED otherThanAnalyze

(***************************************************************************)
(* main.py: analyze, from the return of index_chunks on.                   *)
(***************************************************************************)
\* k of the call retrieve_top_k(..., k=5)
TopK == 5

\* the points a search of k hits may report: the k best of the collection,
\* or all when it holds fewer, in the order of their scores, which is any
Rankings(pts, k) ==
    LET m == Min(k, Cardinality(pts))
    IN  {s \in [1..m -> pts] : \A a, b \in 1..m : a # b => s[a] # s[b]}

\* the record retrieve_top_k makes of a hit; the score is not kept
HitRecord(p) == [id |-> p.id, chunk |-> p.payload.chunk]

\* a variant of HasContext that ignores the list
HasContextAlways(items) == TRUE

\* "if retrieved:" of a list
HasContext(items) == Len(items) > 0

\* index_result = index_chunks(...) returned:
\* indexed_count = index_result.get("count", 0); index_error = None
AnalyzeIndexed ==
    /\ \E r \in Requests :
        /\ an_pc[r] = "indexing"
        /\ ix_pc[r] = "returned"
        /\ indexed_count' = [indexed_count EXCEPT ![r] = ix_result[r].val.count]
        /\ index_error' = [index_error EXCEPT ![r] = "none"]
        /\ an_pc' = [an_pc EXCEPT ![r] = "indexed"]
    /\ UNCHANGED <<qdrant, serialized, incident_id, reduced, ix_pc, ix_chunks,
                   payloads, backend_calls, ix_result, index_calls,
                   retrieve_calls, retrieved, retrieval_error, llm_calls>>
    /\ UNCHANGED otherThanAnalyze

\* except Exception as e: indexed_count = 0; index_error = str(e)
AnalyzeIndexFailed ==
    /\ \E r \in Requests :
        /\ an_pc[r] = "indexing"
        /\ ix_pc[r] = "raised"
        /\ indexed_count' = [indexed_count EXCEPT ![r] = 0]
        /\ index_error' = [index_error EXCEPT ![r] = ix_result[r].exc]
        /\ an_pc' = [an_pc EXCEPT ![r] = "indexed"]
    /\ UNCHANGED <<qdrant, serialized, incident_id, reduced, ix_pc, ix_chunks,
                   payloads, backend_calls, ix_result, index_calls,
                   retrieve_calls, retrieved, retrieval_error, llm_calls>>
    /\ UNCHANGED otherThanAnalyze

\* retrieved = retrieve_top_k(..., collection=collection_name, k=5) returns
\* what the search finds in the collection; retrieval_error = None
AnalyzeRetrieve ==
    /\ \E r \in Requests :
        /\ an_pc[r] = "indexed"
        /\ qdrant[collection_name(r)].exists
        /\ \E hits \in Rankings(qdrant[collection_name(r)].points, TopK) :
            retrieved' = [retrieved EXCEPT ![r] =
                              [k \in 1..Len(hits) |-> HitRecord(hits[k])]]
        /\ retrieve_calls' = [retrieve_calls EXCEPT ![r] = @ + 1]
        /\ retrieval_error' = [retrieval_error EXCEPT ![r] = "none"]
        /\ an_pc' = [an_pc EXCEPT ![r] = "retrieved"]
    /\ UNCHANGED <<qdrant, serialized, incident_id, reduced, ix_pc, ix_chunks,
                   payloads, backend_calls, ix_result, index_calls,
                   indexed_count, index_error, llm_calls>>
    /\ UNCHANGED otherThanAnalyze

\* retrieve_top_k raises (the collection does not exist, the embedder or
\* both search tiers fail): retrieved = []; retrieval_error = str(e)
AnalyzeRetrieveRaises ==
    /\ \E r \in Requests :
        /\ an_pc[r] = "indexed"
        /\ retrieved' = [retrieved EXCEPT ![r] = <<>>]
        /\ retrieve_calls' = [retrieve_calls EXCEPT ![r] = @ + 1]
        /\ retrieval_error' = [retrieval_error EXCEPT ![r] = "retrieval failed"]
        /\ an_pc' = [an_pc EXCEPT ![r] = "retrieved"]
    /\ UNCHANGED <<qdrant, serialized, incident_id, reduced, ix_pc, ix_chunks,
                   payloads, backend_calls, ix_result, index_calls,
                   indexed_count, index_error, llm_calls>>
    /\ UNCHANGED otherThanAnalyze

\* if retrieved: ... llm_analysis = run_llm(llm_prompt); return the response
AnalyzeGenerate ==
    /\ \E r \in Requests :
        /\ an_pc[r] = "retrieved"
        /\ HasContext(retrieved[r])
        /\ llm_calls' = [llm_calls EXCEPT ![r] = @ + 1]
        /\ an_pc' = [an_pc EXCEPT ![r] = "responded"]
    /\ UNCHANGED <<qdrant, serialized, incident_id, reduced, ix_pc, ix_chunks,
                   payloads, backend_calls, ix_result, index_calls,
                   indexed_count, index_error, retrieve_calls, retrieved,
                   retrieval_error>>
    /\ UNCHANGED otherThanAnalyze

\* retrieved is empty: llm_analysis stays None; return the response
AnalyzeRespond ==
    /\ \E r \in Requests :
        /\ an_pc[r] = "retrieved"
        /\ ~HasContext(retrieved[r])
        /\ an_pc' = [an_pc EXCEPT ![r] = "responded"]
    /\ UNCHANGED <<qdrant, serialized, incident_id, reduced, ix_pc, ix_chunks,
                   payloads, backend_calls, ix_result, index_calls,
                   indexed_count, index_error, retrieve_calls, retrieved,
                   retrieval_error, llm_calls>>
    /\ UNCHANGED otherThanAnalyze

NextAnalyze ==
    \/ AnalyzeReject
    \/ AnalyzeIndexCall
    \/ IndexNoChunks
    \/ IndexEncode
    \/ IndexEncodeRaises
    \/ IndexRecreate
    \/ IndexRecreateRaises
    \/ IndexUpsert
    \/ IndexUpsertRaises
    \/ AnalyzeIndexed
    \/ AnalyzeIndexFailed
    \/ AnalyzeRetrieve
    \/ AnalyzeRetrieveRaises
    \/ AnalyzeGenerate
    \/ AnalyzeRespond

(***************************************************************************)
(* Specifications.                                                         *)
(***************************************************************************)
InitExtract ==
    ExtractEntry /\ ChunkIdle /\ RetrieveIdle /\ AnalyzeIdle /\ SummarizeIdle
SpecExtract == InitExtract /\ [][NextExtract]_vars

InitChunk ==
    ChunkEntry /\ ExtractIdle /\ RetrieveIdle /\ AnalyzeIdle /\ SummarizeIdle
SpecChunk == InitChunk /\ [][NextChunk]_vars

InitRetrieve ==
    RetrieveEntry /\ ExtractIdle /\ ChunkIdle /\ AnalyzeIdle /\ SummarizeIdle
SpecRetrieve == InitRetrieve /\ [][NextRetrieve]_vars

\* two requests in flight together
InitAnalyze ==
    /\ AnalyzeEntry /\ ~serialized
    /\ ExtractIdle /\ ChunkIdle /\ RetrieveIdle /\ SummarizeIdle
SpecAnalyze == InitAnalyze /\ [][NextAnalyze]_vars

\* requests one after the other
InitSerial ==
    /\ AnalyzeEntry /\ serialized
    /\ ExtractIdle /\ ChunkIdle /\ RetrieveIdle /\ SummarizeIdle

InitSummarize ==
    SummarizeEntry /\ ExtractIdle /\ ChunkIdle /\ RetrieveIdle /\ AnalyzeIdle
SpecSummarize == InitSummarize /\ [][NextSummarize]_vars
SpecSerial == InitSerial /\ [][NextAnalyze]_vars

Init ==
    \/ InitExtract \/ InitChunk \/ InitRetrieve
    \/ InitAnalyze \/ InitSerial \/ InitSummarize
Next ==
    NextExtract \/ NextChunk \/ NextRetrieve \/ NextAnalyze \/ NextSummarize
Spec == Init /\ [][Next]_vars

(***************************************************************************)
(* Properties of extract_relevant_lines.                                   *)
(***************************************************************************)
\* the starts and ends of the maximal runs of consecutive indices of S
RunStarts(S) == {a \in S : (a - 1) \notin S}
RunEnds(S) == {b \in S : (b + 1) \notin S}
RunEndOf(S, a) ==
    CHOOSE b \in RunEnds(S) : b >= a /\ \A c \in RunEnds(S) : c >= a => b <= c
\* the k-th smallest run start
NthStart(S, k) ==
    CHOOSE a \in RunStarts(S) : Cardinality({c \in RunStarts(S) : c < a}) = k - 1

\* the lines a..b (0-based, inclusive) with a newline between neighbours
IsLinesJoined(s, ls, a, b) ==
    /\ Len(s) = 2 * (b - a + 1) - 1
    /\ \A k \in 1..(b - a + 1) : s[2 * k - 1] = ls[a + k]
    /\ \A k \in 1..(b - a) : s[2 * k] = NL

\* where block k starts in the joined string
RECURSIVE BlockOffset(_, _)
BlockOffset(bs, k) ==
    IF k = 1 THEN 0
    ELSE BlockOffset(bs, k - 1) + Len(bs[k - 1]) + Len(BlockSeparator)

\* s is the blocks bs in order with the separator between neighbours
IsBlocksJoined(s, bs) ==
    /\ Len(bs) >= 1
    /\ Len(s) = BlockOffset(bs, Len(bs)) + Len(bs[Len(bs)])
    /\ \A k \in 1..Len(bs) :
        /\ SubSeq(s, BlockOffset(bs, k) + 1, BlockOffset(bs, k) + Len(bs[k])) = bs[k]
        /\ k > 1 =>
            SubSeq(s, BlockOffset(bs, k) - 4, BlockOffset(bs, k))
                = <<"\n", "\n", "---", "\n", "\n">>

C2_LengthBounded ==
    ex_pc = "returned" => StrLen(ex_result) <= max_chars

\* no line of the text matches either compiled pattern
NothingMatches ==
    \A k \in 1..Len(lines) : ~KeywordLine[lines[k]] /\ ~StarterLine[lines[k]]

\* s is the last min(n, ml) lines of ls joined by newlines
IsTailOf(s, ls, ml) ==
    LET n == Len(ls)
        m == Min(n, ml)
    IN  IF m = 0 THEN s = <<>> ELSE IsLinesJoined(s, ls, n - m, n - 1)

IsDigit(c) == c \in {DIGITS[k] : k \in 1..10}

FrameLineAt(s, p) ==
    /\ MatchesAt(s, p, <<"a","t"," ">>)
    /\ \E q \in (p + 4)..Len(s) :
        /\ \A k \in (p + 3)..(q - 1) : IsWordChar(s[k]) \/ s[k] \in {".", "$"}
        /\ s[q] = "("
        /\ \E r \in (q + 1)..Len(s) : s[r] = ")"

FileRefAt(s, p) ==
    /\ MatchesAt(s, p, <<"f","i","l","e"," ","\"">>)
    /\ \E q \in (p + 6)..Len(s) :
        /\ MatchesAt(s, q, <<"\"",","," ","l","i","n","e"," ">>)
        /\ q + 8 <= Len(s)
        /\ IsDigit(s[q + 8])

IsStackStarter(line) ==
    LET s == LowerStr(line)
    IN  \E p \in 1..Len(s) :
            \/ MatchesAt(s, p, LowerStr(LineText["tb"]))
            \/ MatchesAt(s, p, LowerStr(STACK_STARTERS[2]))
            \/ FrameLineAt(s, p)
            \/ FileRefAt(s, p)
            \/ MatchesAt(s, p, STACK_STARTERS[5])

StackStarterLine == [id \in LineIds |-> IsStackStarter(LineText[id])]

\* C4: every stack-trace starter line and the lines after it, up to the
\* growth cap and the end of the log, are marked.
C4_StartersMarked ==
    ex_pc # "start" =>
        \A li \in 0..(Len(lines) - 1) :
            StackStarterLine[lines[li + 1]] =>
                \A j \in li..(Min(Len(lines), li + GrowthCap) - 1) :
                    j \in matched_indices

(***************************************************************************)
(* Properties of chunk_text.                                               *)
(***************************************************************************)
\* chunk_size > overlap >= 0
ValidChunking == chunk_size > overlap /\ overlap >= 0

\* C5: every iteration of the window loop moves the offset forward by at
\* least 1, for every chunk_size and overlap.
C5_OffsetAdvances ==
    [][(ck_pc = "loop" /\ ck_pc' = "loop") => i' >= i + 1]_vars

\* c without its first k characters
DropFirst(c, k) == SubSeq(c, k + 1, Len(c))

\* the first chunk in full, then every later chunk without its first ov
\* characters
RECURSIVE Reassemble(_, _, _)
Reassemble(cs, ov, k) ==
    IF k > Len(cs) THEN <<>>
    ELSE (IF k = 1 THEN cs[k] ELSE DropFirst(cs[k], ov))
            \o Reassemble(cs, ov, k + 1)

\* C6: for chunk_size > overlap >= 0 the chunks, the overlap removed from
\* every chunk but the first, concatenate to the text; empty text gives no
\* chunks; the loop ends within len(text) iterations.
C6_ChunksReassemble ==
    /\ (ck_pc = "returned" /\ ValidChunking) =>
            /\ Reassemble(chunks, overlap, 1) = text
            /\ (text = <<>> => chunks = <<>>)
    /\ (ck_pc = "loop" /\ ValidChunking) => Len(chunks) <= Len(text)

\* several chunks of a text of both letters, with an overlap
C6_Witness ==
    /\ ck_pc = "returned"
    /\ ValidChunking
    /\ overlap >= 1
    /\ Len(chunks) >= 3
    /\ \E j, k \in 1..Len(text) : text[j] # text[k]

\* the first m characters of c are the last m characters of prev
SharesWithPredecessor(c, prev, m) ==
    /\ m <= Len(c)
    /\ m <= Len(prev)
    /\ SubSeq(c, 1, m) = SubSeq(prev, Len(prev) - m + 1, Len(prev))

\* C7 as claimed: every chunk is at most chunk_size long and every chunk
\* after the first, the final one included, shares exactly overlap
\* characters with its predecessor.
C7_ExactOverlap ==
    (ck_pc = "returned" /\ ValidChunking) =>
        /\ \A k \in 1..Len(chunks) : Len(chunks[k]) <= chunk_size
        /\ \A k \in 2..Len(chunks) :
            SharesWithPredecessor(chunks[k], chunks[k - 1], overlap)

\* C7 as amended: every chunk is at most chunk_size long; every chunk after
\* the first shares min(overlap, its length) characters with its
\* predecessor, which is overlap whenever the predecessor is chunk_size long.
C7_OverlapUpToLength ==
    (ck_pc = "returned" /\ ValidChunking) =>
        /\ \A k \in 1..Len(chunks) : Len(chunks[k]) <= chunk_size
        /\ \A k \in 2..Len(chunks) :
            /\ SharesWithPredecessor(chunks[k], chunks[k - 1],
                                     Min(overlap, Len(chunks[k])))
            /\ Len(chunks[k - 1]) = chunk_size => Len(chunks[k]) >= overlap

\* a final chunk shorter than the overlap
C7_Witness ==
    /\ ck_pc = "returned"
    /\ ValidChunking
    /\ Len(chunks) >= 2
    /\ Len(chunks[Len(chunks)]) < overlap

(***************************************************************************)
(* Properties of retrieve_top_k.                                           *)
(***************************************************************************)
RetrieveDone == rt_pc \in {"returned", "raised"}
\* the query was embedded and the call went on to the primary tier
PastEmbedding == rt_pc \in {"primary", "rest"} \/ (RetrieveDone /\ primary # "none")

\* C8: the query is embedded once; the REST call is made exactly when the
\* primary search raised or the client has no callable search; a primary
\* search that succeeds returns its records without a REST call; a REST
\* tier that fails raises one RuntimeError carrying the cause, and past the
\* embedding nothing but a RuntimeError escapes.
C8_TwoTierProtocol ==
    /\ embed_calls <= 1 /\ search_calls <= 1 /\ rest_calls <= 1
    /\ rt_pc # "start" => embed_calls = 1
    /\ rest_calls = 1 => (primary \in {"raised", "unavailable"} /\ RetrieveDone)
    /\ (RetrieveDone /\ primary \in {"raised", "unavailable"}) => rest_calls = 1
    /\ primary = "unavailable" => (~has_search /\ search_calls = 0)
    /\ primary \in {"raised", "ok"} => (has_search /\ search_calls = 1)
    /\ primary = "ok" =>
        /\ rt_pc = "returned"
        /\ rest_calls = 0
        /\ rt_result = backend_hits
    /\ rest \in RestFailures =>
        /\ rt_pc = "raised"
        /\ rt_exc = [type |-> "RuntimeError", cause |-> rest]
    /\ (rt_pc = "raised" /\ PastEmbedding) =>
        /\ rt_exc.type = "RuntimeError"
        /\ rest_calls = 1
    /\ rt_pc = "returned" => rt_exc = "none"

\* the REST tier failed after the primary search raised
C8_Witness ==
    /\ rt_pc = "raised"
    /\ primary = "raised"
    /\ search_calls = 1
    /\ rest_calls = 1
    /\ rest = "HTTPError"
    /\ rt_exc = [type |-> "RuntimeError", cause |-> "HTTPError"]

\* C9: a successful response in an envelope of none of the known shapes
\* gives an empty list and raises nothing.
C9_UnknownShapeGivesEmpty ==
    (RetrieveDone /\ rest = "responded" /\ envelope.shape \in UnknownShapes) =>
        /\ rt_pc = "returned"
        /\ rt_result = <<>>

\* C10: a hit delivered flat, nested under 'point', or under any of the
\* three top-level keys is normalised to the same record {id, score, chunk};
\* the output has one record per backend hit, in the backend's order.
C10_ShapesNormalizeAlike ==
    (RetrieveDone /\ rest = "responded" /\ envelope.shape \in KnownShapes) =>
        /\ rt_pc = "returned"
        /\ Len(rt_result) = Len(backend_hits)
        /\ \A k \in 1..Len(backend_hits) :
            /\ rt_result[k].id = backend_hits[k].id
            /\ rt_result[k].score = backend_hits[k].score
            /\ rt_result[k].chunk = backend_hits[k].chunk

\* two hits under an alternate key, the second nested and scored higher
\* than the first, the two with the same id
C10_Witness ==
    /\ rt_pc = "returned"
    /\ rest = "responded"
    /\ envelope.shape = "hits"
    /\ Len(backend_hits) = 2
    /\ envelope.forms = <<"flat", "point">>
    /\ backend_hits[1].id = backend_hits[2].id
    /\ backend_hits[1].score.v < backend_hits[2].score.v
    /\ Len(rt_result) = 2

(***************************************************************************)
(* Properties of index_chunks.                                             *)
(***************************************************************************)
\* the calls of a complete run of index_chunks on a text with chunks
FullProtocol == <<"encode", "recreate_collection", "upsert">>

\* s is the list p, or a beginning of it
IsPrefix(s, p) == Len(s) <= Len(p) /\ \A k \in 1..Len(s) : s[k] = p[k]

\* C11: index_chunks on a text without chunks calls neither the embedder
\* nor the backend and returns count 0.  On any other text it calls, in this
\* order and at most once each, the embedder for the whole batch, then
\* recreate_collection, then upsert; when it returns it has made all three
\* calls, the points it upserted are one per chunk, point k-1 carrying chunk
\* k as its payload, so their ids are 0..count-1, and the count it returns is
\* the number of chunks and of points.
C11_IndexProtocol ==
    \A r \in Requests :
        LET cs == chunk_text(reduced[r])
            pts == payloads[r]
        IN  /\ IsPrefix(backend_calls[r], FullProtocol)
            /\ cs = <<>> =>
                /\ backend_calls[r] = <<>>
                /\ pts = <<>>
                /\ ix_pc[r] # "raised"
                /\ ix_pc[r] = "returned" =>
                     ix_result[r] = Value([count |-> 0,
                                           collection |-> collection_name(r)])
            /\ (cs # <<>> /\ ix_pc[r] = "returned") =>
                /\ backend_calls[r] = FullProtocol
                /\ Len(pts) = Len(cs)
                /\ \A k \in 1..Len(cs) :
                     pts[k] = [id |-> k - 1, payload |-> [chunk |-> cs[k]]]
                /\ {pts[k].id : k \in 1..Len(pts)} = 0..(Len(cs) - 1)
                /\ ix_result[r] = Value([count |-> Len(cs),
                                         collection |-> collection_name(r)])

\* one call returned after indexing two chunks, another found no chunks
C11_Witness ==
    \E r, q \in Requests :
        /\ ix_pc[r] = "returned"
        /\ Len(ix_chunks[r]) = 2
        /\ backend_calls[r] = FullProtocol
        /\ ix_pc[q] = "returned"
        /\ ix_chunks[q] = <<>>
        /\ ix_result[q].val.count = 0

(***************************************************************************)
(* Properties of summarize_metadata.                                       *)
(***************************************************************************)
\* the lines of a text
LineSet(ls) == {ls[k] : k \in 1..Len(ls)}

\* the keywords of the pattern, in upper case
UpperKeywords == {UpperStr(ERROR_KEYWORDS[k]) : k \in 1..Len(ERROR_KEYWORDS)}

\* texts with the same lines as ls, in another order or with lines
\* repeated: every such text of up to one line more for a short ls, and for
\* any ls the text backwards, twice over, and with its first line doubled
Rearrangements(ls) ==
    (IF Len(ls) <= MaxMetaLines
     THEN {o \in SeqsUpTo(LineSet(ls), Len(ls) + 1) : LineSet(o) = LineSet(ls)}
     ELSE {})
        \cup {Reverse(ls), ls \o ls, <<ls[1]>> \o ls}

\* C12: the detected_keywords summarize_metadata returns are in strictly
\* ascending order (so sorted and free of duplicates), at most 10, each a
\* keyword of the pattern in upper case, and the same for every text that
\* has the same lines in another order or repeated; for a text without
\* lines the result is the dict of zeros.
C12_KeywordsCanonical ==
    sm_pc = "returned" =>
        LET dk == sm_result.detected_keywords
        IN  /\ \A a, b \in 1..Len(dk) : a < b => StrLess(dk[a], dk[b])
            /\ Len(dk) <= 10
            /\ \A a \in 1..Len(dk) :
                 dk[a] \in UpperKeywords /\ UpperStr(dk[a]) = dk[a]
            /\ sm_lines # <<>> =>
                 \A o \in Rearrangements(sm_lines) :
                     summarize_metadata(o).detected_keywords = dk
            /\ sm_lines = <<>> =>
                 sm_result = [total_lines |-> 0, error_line_count |-> 0,
                              contains_traceback |-> FALSE,
                              detected_keywords |-> <<>>]

\* a text with every keyword, some twice and in either letter case, has
\* been summarized to ten keywords
C12_Witness ==
    /\ sm_pc = "returned"
    /\ Len(sm_lines) > Len(sm_result.detected_keywords)
    /\ Len(sm_result.detected_keywords) = 10
    /\ sm_result.error_line_count > 10

(***************************************************************************)
(* Properties of analyze.                                                  *)
(***************************************************************************)
\* request r was taken up and not rejected
Handled(r) == an_pc[r] \in {"indexing", "indexed", "retrieved", "responded"}

\* index_chunks of request r returned after storing chunks, and its
\* retrieve_top_k returned
IndexedAndRetrieved(r) ==
    /\ an_pc[r] \in {"retrieved", "responded"}
    /\ retrieval_error[r] = "none"
    /\ ix_pc[r] = "returned"
    /\ ix_chunks[r] # <<>>

\* the chunks request r retrieved, and those it indexed
RetrievedChunks(r) == {retrieved[r][k].chunk : k \in 1..Len(retrieved[r])}
OwnChunks(r) == {ix_chunks[r][k] : k \in 1..Len(ix_chunks[r])}

\* request q has the incident id of request r and has called
\* recreate_collection
Interferes(q, r) ==
    /\ q # r
    /\ Handled(q)
    /\ incident_id[q] = incident_id[r]
    /\ \E k \in 1..Len(backend_calls[q]) :
           backend_calls[q][k] = "recreate_collection"

\* C13: two requests in flight together with the same collection identifier
\* can interleave so that a retrieve does not return the points of its own
\* index call (reached in C13_Witness).  This needs the shared identifier:
\* whenever the retrieve of a request that indexed chunks returns, it
\* returns exactly the request's own chunks, or another request with the
\* same incident id has called recreate_collection; and what it returns
\* are always points a request with that incident id has built.
C13_RaceNeedsSharedIdentifier ==
    \A r \in Requests :
        IndexedAndRetrieved(r) =>
            /\ RetrievedChunks(r) = OwnChunks(r)
                 \/ \E q \in Requests : Interferes(q, r)
            /\ \A k \in 1..Len(retrieved[r]) :
                 \E q \in Requests :
                     /\ Handled(q)
                     /\ incident_id[q] = incident_id[r]
                     /\ \E j \in 1..Len(payloads[q]) :
                            retrieved[r][k] = HitRecord(payloads[q][j])

\* two requests with one incident id have both indexed their
\* chunks, and the retrieve of each returned a chunk of the other's text
\* beside a chunk of the own text: the collection holds points of both
C13_Witness ==
    \E r, q \in Requests :
        /\ r # q
        /\ incident_id[r] = incident_id[q]
        /\ IndexedAndRetrieved(r)
        /\ IndexedAndRetrieved(q)
        /\ index_error[r] = "none" /\ index_error[q] = "none"
        /\ RetrievedChunks(r) \cap OwnChunks(q) # {}
        /\ RetrievedChunks(r) \cap OwnChunks(r) # {}
        /\ RetrievedChunks(q) = RetrievedChunks(r)
        /\ RetrievedChunks(r) # OwnChunks(r)

\* index_chunks of request r has finished
IndexFinished(r) == ix_pc[r] \in {"returned", "raised"}

\* analyze is past its indexing block
PastIndexing(r) == an_pc[r] \in {"indexed", "retrieved", "responded"}

\* C14: within a request index_chunks, retrieve_top_k and run_llm are each
\* invoked at most once; once retrieve_top_k has been invoked index_chunks
\* has been invoked exactly once and has finished: it returned a count
\* (0 when it found no chunks), reported with index_error unset, or it
\* raised, reported as indexed_count 0 with index_error set.  A request
\* whose index failed is not rejected, and every answered request that got
\* as far as indexing has invoked index_chunks and retrieve_top_k once each.
\* A failed retrieval leaves retrieved empty with retrieval_error set, and
\* run_llm is then not called.
C14_IndexThenRetrieve ==
    \A r \in Requests :
        /\ index_calls[r] <= 1 /\ retrieve_calls[r] <= 1 /\ llm_calls[r] <= 1
        /\ retrieve_calls[r] > 0 =>
             index_calls[r] = 1 /\ IndexFinished(r) /\ PastIndexing(r)
        /\ PastIndexing(r) =>
             /\ index_calls[r] = 1
             /\ IndexFinished(r)
             /\ ix_pc[r] = "raised" =>
                  indexed_count[r] = 0 /\ index_error[r] # "none"
             /\ ix_pc[r] = "returned" =>
                  /\ indexed_count[r] = Len(ix_chunks[r])
                  /\ index_error[r] = "none"
        /\ index_calls[r] > 0 => an_pc[r] # "rejected"
        /\ an_pc[r] = "responded" => index_calls[r] = 1 /\ retrieve_calls[r] = 1
        /\ retrieval_error[r] # "none" =>
             retrieved[r] = <<>> /\ llm_calls[r] = 0
        /\ llm_calls[r] > 0 => retrieve_calls[r] = 1 /\ retrieved[r] # <<>>

\* a request was answered after its index failed and its retrieval failed,
\* without a generation call; another was answered after a generation call
C14_Witness ==
    \E r, q \in Requests :
        /\ an_pc[r] = "responded"
        /\ ix_pc[r] = "raised"
        /\ index_error[r] # "none"
        /\ indexed_count[r] = 0
        /\ retrieve_calls[r] = 1
        /\ retrieval_error[r] # "none"
        /\ llm_calls[r] = 0
        /\ an_pc[q] = "responded"
        /\ llm_calls[q] = 1

\* the requests before r, and r, that were not rejected and use r's
\* incident id
SameIncidentUpTo(r) ==
    {q \in Requests : q <= r /\ Handled(q) /\ incident_id[q] = incident_id[r]}

\* every index_chunks call on r's collection up to and including r's
\* has returned
CallsReturned(r) ==
    /\ Handled(r)
    /\ \A q \in SameIncidentUpTo(r) : ix_pc[q] = "returned"

\* no later request has started to index into r's collection
Latest(r) ==
    \A q \in Requests :
        (q > r /\ Handled(q)) => incident_id[q] # incident_id[r]

\* the points of the chunks of request q
PointsOf(q) ==
    {[id |-> k - 1, payload |-> [chunk |-> ix_chunks[q][k]]] :
        k \in 1..Len(ix_chunks[q])}

\* the most recent of those calls whose text produced chunks; 0 if none did
LastWithChunks(r) ==
    LET S == {q \in SameIncidentUpTo(r) : ix_chunks[q] # <<>>}
    IN  IF S = {} THEN 0 ELSE CHOOSE q \in S : \A p \in S : p <= q

====
